---- MODULE Spec2Model ----
(***************************************************************************)
(* Model of UI/RemoteISOScreen.cpp: the remote ISO sharing server          *)
(* (ExecuteServer and its HTTP range handler), the server lifecycle driven *)
(* by RemoteISOScreen, the directory scan (FindServer) and the connect     *)
(* screen that runs it on a background thread.                             *)
(***************************************************************************)
EXTENDS Integers, Sequences, FiniteSets, TLC

VARIABLES
    serverStatus,     \* static ServerStatus serverStatus
    serverThread,     \* static std::thread *serverThread ("null" or "thread")
    serverRuns,       \* the live ExecuteServer threads, each with its locals
    serverStopping_,  \* RemoteISOScreen::serverStopping_
    serverRunning_,   \* RemoteISOScreen::serverRunning_
    iRemoteISOPort,   \* g_Config.iRemoteISOPort
    httpServers,      \* the http::Server objects made with new and not deleted
    lastAccess,       \* what the last step of the UI or server thread did with
                      \* the shared values, serverStatusLock and serverStatusCond
    lastCall,         \* the UI handler that ran last
    ret,              \* what it returned
    clock,            \* real_time_now(), in seconds
    connectScreen,    \* the RemoteISOConnectScreen: none, alive, closing, destroyed
    scanComplete_,    \* RemoteISOConnectScreen::scanComplete_
    url_,             \* RemoteISOConnectScreen::url_
    nextRetry_,       \* RemoteISOConnectScreen::nextRetry_
    scanThread_,      \* RemoteISOConnectScreen::scanThread_ ("null" or "thread")
    scanLock_,        \* *scanLock_: "free", "held" (by a scan thread) or "deleted"
    scanRuns,         \* the live ExecuteScan threads
    browsed,          \* the URL handed to BrowseToURL, "" when none
    scanFault,        \* a scan thread used scanLock_ after it was deleted
    emptySeenAt,      \* when update first saw the last scan complete without a
                      \* url, -1 when it has not
    fsDir,            \* FindServer: what the directory lookup answers
    fsReach,          \* FindServer: the <<host, port>> pairs that accept a connection
    fsResult,         \* FindServer: "pending", or the returned url and the probes made
    hReq,             \* the handler: the request being answered
    hSz,              \* the handler: the size of the requested file
    hIo,              \* the handler: how the file calls of the request went
    hResp,            \* the handler: the response written
    win32,            \* the served paths: whether the build defines _WIN32
    recentIsos,       \* the served paths: g_Config.recentIsos
    paths             \* the served paths: the map ExecuteServer builds from them

serverVars == <<serverStatus, serverThread, serverRuns, serverStopping_,
                serverRunning_, iRemoteISOPort, httpServers, lastAccess,
                lastCall, ret>>
scanVars == <<connectScreen, scanComplete_, url_, nextRetry_, scanThread_,
              scanLock_, scanRuns, browsed, scanFault, emptySeenAt>>
findVars == <<fsDir, fsReach, fsResult>>
handlerVars == <<hReq, hSz, hIo, hResp>>
pathVars == <<win32, recentIsos, paths>>
callVars == <<findVars, handlerVars, pathVars>>
vars == <<serverVars, scanVars, callVars, clock>>

-----------------------------------------------------------------------------
(* Bounds of the model and constants of the program *)

MaxTime == 1100
\* the server threads started in one behaviour
MaxServers == 2
\* the time up to which the retry timer of the connect screen is followed
MaxScanTime == 100

REGISTER_INTERVAL == 540
RETRY_DELAY == 30
\* the configured listen port at start-up, and the ports the OS hands out for Listen(0)
ConfiguredPorts == {0, 8080}
OsPorts == {49152}

STOPPED == "STOPPED"
STARTING == "STARTING"
RUNNING == "RUNNING"
STOPPING == "STOPPING"
ServerStatus == {STOPPED, STARTING, RUNNING, STOPPING}

EVENT_DONE == "EVENT_DONE"
EVENT_SKIPPED == "EVENT_SKIPPED"

\* the steps real_time_now() advances by: one long step, or steps that add up
\* to exactly the registration interval and to just over it
CoarseTicks == {REGISTER_INTERVAL + 1}
FineTicks == {REGISTER_INTERVAL \div 2, REGISTER_INTERVAL \div 2 + 1}
\* steps that add up to exactly the retry delay and to just over it
RetryTicks == {RETRY_DELAY \div 2, RETRY_DELAY \div 2 + 1}

RemoveAt(s, i) == [j \in 1..(Len(s) - 1) |-> IF j < i THEN s[j] ELSE s[j + 1]]

-----------------------------------------------------------------------------
(* The server status and its lock *)

\* the values shared by the UI thread and the server thread
SharedValues == {"serverStatus", "iRemoteISOPort"}

\* a step that reads or writes the values of touched, with serverStatusLock held
\* or not, and calls serverStatusCond.notify_one() or not
Access(touched, held, notified) ==
    [touched |-> touched, held |-> held, notified |-> notified]

\* a step that touches no shared value
NoAccess == Access({}, FALSE, FALSE)

\* std::lock_guard<std::mutex> guard(serverStatusLock) around serverStatus
UnderLock == Access({"serverStatus"}, TRUE, FALSE)

\* g_Config.iRemoteISOPort used by ExecuteServer, which takes no lock there
PortAccess == Access({"iRemoteISOPort"}, FALSE, FALSE)

\* UpdateStatus(s): serverStatus = s under serverStatusLock, then
\* serverStatusCond.notify_one()
UpdateStatus(s) ==
    /\ serverStatus' = s
    /\ lastAccess' = Access({"serverStatus"}, TRUE, TRUE)

\* RetrieveStatus(): serverStatus read under serverStatusLock
RetrieveStatus == serverStatus

-----------------------------------------------------------------------------
(* RemoteISOScreen: the UI thread's handlers *)

\* a variant: a start is skipped only while the server is running
StartSkippedOnlyWhenRunning == serverStatus = RUNNING

\* the early return of HandleStartServer
StartSkipped == serverStatus # STOPPED

\* a variant: a stop is skipped only while the server is stopped
StopSkippedOnlyWhenStopped == serverStatus = STOPPED

\* the early return of HandleStopServer
StopSkipped == serverStatus # RUNNING

\* a fresh ExecuteServer thread, at its first statement. Besides the locals it
\* keeps two notes about the loop: sawStop, that a loop condition has been
\* false, and lateSlices, how many RunSlice calls began while the status was
\* Stopping (counted up to two)
NewServerRun == [pc |-> "listen", port |-> 0, bound |-> "none",
                 lastRegister |-> 0, begins |-> <<>>, returned |-> 0,
                 sawStop |-> FALSE, lateSlices |-> 0]

HandleStartServer ==
    /\ lastCall' = "HandleStartServer"
    /\ lastAccess' = UnderLock
    /\ IF StartSkipped
         THEN /\ ret' = EVENT_SKIPPED
              /\ UNCHANGED <<serverStatus, serverThread, serverRuns>>
         ELSE /\ httpServers < MaxServers
              /\ serverStatus' = STARTING
              /\ serverThread' = "thread"
              /\ serverRuns' = Append(serverRuns, NewServerRun)
              /\ ret' = EVENT_DONE
    /\ UNCHANGED <<serverStopping_, serverRunning_, iRemoteISOPort, httpServers, scanVars, callVars, clock>>

HandleStopServer ==
    /\ lastCall' = "HandleStopServer"
    /\ lastAccess' = UnderLock
    /\ IF StopSkipped
         THEN /\ ret' = EVENT_SKIPPED
              /\ UNCHANGED <<serverStatus, serverStopping_>>
         ELSE /\ serverStatus' = STOPPING
              /\ serverStopping_' = TRUE
              /\ ret' = EVENT_DONE
    /\ UNCHANGED <<serverThread, serverRuns, serverRunning_, iRemoteISOPort, httpServers,
                   scanVars, callVars, clock>>

\* a variant: the thread handle is deleted as soon as a stop was requested
ReclaimDueOnRequest(nowRunning) == serverStopping_

\* if (serverStopping_ && !nowRunning)
ReclaimDue(nowRunning) == serverStopping_ /\ ~nowRunning

\* RemoteISOScreen::update
ScreenUpdate ==
    LET nowRunning == RetrieveStatus # STOPPED IN
    /\ lastCall' = "update"
    /\ lastAccess' = UnderLock
    /\ ret' = "void"
    /\ IF ReclaimDue(nowRunning)
         THEN /\ serverThread' = "null"
              /\ serverStopping_' = FALSE
         ELSE UNCHANGED <<serverThread, serverStopping_>>
    /\ serverRunning_' = nowRunning
    /\ UNCHANGED <<serverStatus, serverRuns, iRemoteISOPort, httpServers, scanVars, callVars, clock>>

-----------------------------------------------------------------------------
(* ExecuteServer: the background server thread *)

\* a variant: the loop runs until the status is Stopped
LoopContinuesUntilStopped == serverStatus # STOPPED

\* a variant: the loop does not look at the status
LoopContinuesAlways == TRUE

\* while (RetrieveStatus() == ServerStatus::RUNNING)
LoopContinues == RetrieveStatus = RUNNING

\* a variant: registration is due after a tenth of the interval
RegisterDueEarly(now, lastRegister) == now > lastRegister + REGISTER_INTERVAL \div 10

\* if (now > lastRegister + 540.0)
RegisterDue(now, lastRegister) == now > lastRegister + REGISTER_INTERVAL

SetRun(i, r) == serverRuns' = [serverRuns EXCEPT ![i] = r]

\* auto http = new http::Server(...), http->Listen(g_Config.iRemoteISOPort),
\* and http->Listen(0) when it fails
ES_Listen(i) ==
    /\ serverRuns[i].pc = "listen"
    /\ \E prefOk \in BOOLEAN, anyOk \in BOOLEAN, os \in OsPorts :
         LET r == serverRuns[i]
             b == IF prefOk THEN "preferred" ELSE IF anyOk THEN "any" ELSE "none"
             p == IF prefOk /\ iRemoteISOPort # 0 THEN iRemoteISOPort
                  ELSE IF prefOk \/ anyOk THEN os ELSE 0
         IN SetRun(i, [r EXCEPT !.pc = "setRunning", !.bound = b, !.port = p])
    /\ httpServers' = httpServers + 1
    /\ lastAccess' = PortAccess
    /\ UNCHANGED <<serverStatus, serverThread, serverStopping_, serverRunning_,
                   iRemoteISOPort, lastCall, ret, scanVars, callVars, clock>>

\* UpdateStatus(ServerStatus::RUNNING)
ES_SetRunning(i) ==
    /\ serverRuns[i].pc = "setRunning"
    /\ UpdateStatus(RUNNING)
    /\ SetRun(i, [serverRuns[i] EXCEPT !.pc = "savePort"])
    /\ UNCHANGED <<serverThread, serverStopping_, serverRunning_,
                   iRemoteISOPort, httpServers, lastCall, ret, scanVars, callVars, clock>>

\* g_Config.iRemoteISOPort = http->Port(); the first RegisterServer begins
ES_SavePort(i) ==
    /\ serverRuns[i].pc = "savePort"
    /\ iRemoteISOPort' = serverRuns[i].port
    /\ lastAccess' = PortAccess
    /\ SetRun(i, [serverRuns[i] EXCEPT !.pc = "register0",
                                       !.begins = Append(@, clock)])
    /\ UNCHANGED <<serverStatus, serverThread, serverStopping_, serverRunning_,
                   httpServers, lastCall, ret, scanVars, callVars, clock>>

\* the first RegisterServer returns; lastRegister = real_time_now()
ES_Register0Return(i) ==
    /\ serverRuns[i].pc = "register0"
    /\ SetRun(i, [serverRuns[i] EXCEPT !.pc = "check", !.lastRegister = clock,
                                       !.returned = @ + 1])
    /\ lastAccess' = NoAccess
    /\ UNCHANGED <<serverStatus, serverThread, serverStopping_, serverRunning_,
                   iRemoteISOPort, httpServers, lastCall, ret, scanVars, callVars, clock>>

\* the loop condition: go on to http->RunSlice(5.0), or leave the loop
ES_Check(i) ==
    /\ serverRuns[i].pc = "check"
    /\ IF LoopContinues
         THEN SetRun(i, [serverRuns[i] EXCEPT !.pc = "enter"])
         ELSE SetRun(i, [serverRuns[i] EXCEPT !.pc = "shutdown", !.sawStop = TRUE])
    /\ lastAccess' = UnderLock
    /\ UNCHANGED <<serverStatus, serverThread, serverStopping_, serverRunning_,
                   iRemoteISOPort, httpServers, lastCall, ret, scanVars, callVars, clock>>

\* http->RunSlice(5.0) begins
ES_SliceBegin(i) ==
    /\ serverRuns[i].pc = "enter"
    /\ SetRun(i, [serverRuns[i] EXCEPT
                    !.pc = "slice",
                    !.lateSlices = IF serverStatus = STOPPING /\ @ < 2
                                     THEN @ + 1 ELSE @])
    /\ lastAccess' = NoAccess
    /\ UNCHANGED <<serverStatus, serverThread, serverStopping_, serverRunning_,
                   iRemoteISOPort, httpServers, lastCall, ret, scanVars, callVars, clock>>

\* RunSlice returns; now = real_time_now(); RegisterServer begins when due
ES_SliceReturn(i) ==
    /\ serverRuns[i].pc = "slice"
    /\ LET r == serverRuns[i]
           now == clock
       IN IF RegisterDue(now, r.lastRegister)
            THEN SetRun(i, [r EXCEPT !.pc = "register", !.lastRegister = now,
                                     !.begins = Append(@, clock)])
            ELSE SetRun(i, [r EXCEPT !.pc = "check"])
    /\ lastAccess' = NoAccess
    /\ UNCHANGED <<serverStatus, serverThread, serverStopping_, serverRunning_,
                   iRemoteISOPort, httpServers, lastCall, ret, scanVars, callVars, clock>>

\* the periodic RegisterServer returns; lastRegister = now (already stored)
ES_RegisterReturn(i) ==
    /\ serverRuns[i].pc = "register"
    /\ SetRun(i, [serverRuns[i] EXCEPT !.pc = "check", !.returned = @ + 1])
    /\ lastAccess' = NoAccess
    /\ UNCHANGED <<serverStatus, serverThread, serverStopping_, serverRunning_,
                   iRemoteISOPort, httpServers, lastCall, ret, scanVars, callVars, clock>>

\* net::Shutdown()
ES_Shutdown(i) ==
    /\ serverRuns[i].pc = "shutdown"
    /\ SetRun(i, [serverRuns[i] EXCEPT !.pc = "setStopped"])
    /\ lastAccess' = NoAccess
    /\ UNCHANGED <<serverStatus, serverThread, serverStopping_, serverRunning_,
                   iRemoteISOPort, httpServers, lastCall, ret, scanVars, callVars, clock>>

\* UpdateStatus(ServerStatus::STOPPED); the thread function returns
ES_SetStopped(i) ==
    /\ serverRuns[i].pc = "setStopped"
    /\ UpdateStatus(STOPPED)
    /\ serverRuns' = RemoveAt(serverRuns, i)
    /\ UNCHANGED <<serverThread, serverStopping_, serverRunning_,
                   iRemoteISOPort, httpServers, lastCall, ret, scanVars, callVars, clock>>

ExecuteServer ==
    \/ \E i \in DOMAIN serverRuns : ES_Listen(i)
    \/ \E i \in DOMAIN serverRuns : ES_SetRunning(i)
    \/ \E i \in DOMAIN serverRuns : ES_SavePort(i)
    \/ \E i \in DOMAIN serverRuns : ES_Register0Return(i)
    \/ \E i \in DOMAIN serverRuns : ES_Check(i)
    \/ \E i \in DOMAIN serverRuns : ES_SliceBegin(i)
    \/ \E i \in DOMAIN serverRuns : ES_SliceReturn(i)
    \/ \E i \in DOMAIN serverRuns : ES_RegisterReturn(i)
    \/ \E i \in DOMAIN serverRuns : ES_Shutdown(i)
    \/ \E i \in DOMAIN serverRuns : ES_SetStopped(i)

-----------------------------------------------------------------------------
(* ExecuteServer's map of served paths. Strings are sequences of characters. *)

MaxIsos == 3

\* file names g_Config.recentIsos can hold: the same name in two directories,
\* a space and a name that already holds %20, upper-case extensions, another
\* extension, a directory named like an image, a backslash, a trailing
\* separator, a bare extension and a name shorter than an extension
FileNames ==
    {<<"/", "g", "/", "a", ".", "i", "s", "o">>,
     <<"/", "h", "/", "a", ".", "i", "s", "o">>,
     <<"a", " ", "b", ".", "I", "S", "O">>,
     <<"a", "%", "2", "0", "b", ".", "I", "S", "O">>,
     <<"/", "g", "/", "a", ".", "C", "s", "o">>,
     <<"/", "g", "/", "a", ".", "t", "x", "t">>,
     <<"/", "g", ".", "i", "s", "o", "/", "a">>,
     <<"g", "\\", "a", ".", "i", "s", "o">>,
     <<"/", "g", "/">>,
     <<".", "i", "s", "o">>,
     <<"i", "s", "o">>}

RECURSIVE IsoLists(_)
IsoLists(n) ==
    IF n = 0 THEN {<<>>}
    ELSE IsoLists(n - 1) \cup {Append(l, f) : l \in {x \in IsoLists(n - 1) : Len(x) = n - 1},
                                               f \in FileNames}

\* static const std::string sep
sep == IF win32 THEN {"\\", "/"} ELSE {"/"}

\* filename.find_last_of(sep), looking from index i down; 0 stands for npos
RECURSIVE find_last_of(_, _, _)
find_last_of(s, chars, i) ==
    IF i = 0 THEN 0
    ELSE IF s[i] \in chars THEN i
    ELSE find_last_of(s, chars, i - 1)

\* std::string basename = "/" + (the part of filename after the last separator)
Basename(filename) ==
    LET basepos == find_last_of(filename, sep, Len(filename)) IN
    <<"/">> \o (IF basepos = 0 THEN filename
                ELSE SubSeq(filename, basepos + 1, Len(filename)))

ToLower(c) ==
    CASE c = "I" -> "i" [] c = "S" -> "s" [] c = "O" -> "o" [] c = "C" -> "c"
      [] OTHER -> c

\* endsWithNoCase(str, what)
endsWithNoCase(str, what) ==
    /\ Len(str) >= Len(what)
    /\ \A i \in 1..Len(what) :
          ToLower(str[Len(str) - Len(what) + i]) = ToLower(what[i])

\* ReplaceAll(input, src, dest), for a one-character src
RECURSIVE ReplaceAll(_, _, _)
ReplaceAll(input, src, dest) ==
    IF input = <<>> THEN <<>>
    ELSE (IF Head(input) = src THEN dest ELSE <<Head(input)>>)
           \o ReplaceAll(Tail(input), src, dest)

\* a variant: only .iso images are served
IsServedIsoOnly(basename) == endsWithNoCase(basename, <<".", "i", "s", "o">>)

\* if (endsWithNoCase(basename, ".cso") || endsWithNoCase(basename, ".iso"))
IsServed(basename) ==
    \/ endsWithNoCase(basename, <<".", "c", "s", "o">>)
    \/ endsWithNoCase(basename, <<".", "i", "s", "o">>)

\* paths[key] = filename on a std::map
MapPut(map, key, filename) ==
    [k \in DOMAIN map \cup {key} |-> IF k = key THEN filename ELSE map[k]]

\* for (std::string filename : g_Config.recentIsos) ..., from entry k on
RECURSIVE BuildPaths(_, _, _)
BuildPaths(isos, k, map) ==
    IF k > Len(isos) THEN map
    ELSE LET filename == isos[k]
             basename == Basename(filename)
         IN BuildPaths(isos, k + 1,
                IF IsServed(basename)
                  THEN MapPut(map, ReplaceAll(basename, " ", <<"%", "2", "0">>), filename)
                  ELSE map)

NoPaths == [built |-> FALSE, map |-> <<>>]

\* ExecuteServer builds the map once, before it registers the handlers
PA_Build ==
    /\ ~paths.built
    /\ paths' = [built |-> TRUE, map |-> BuildPaths(recentIsos, 1, <<>>)]
    /\ UNCHANGED <<win32, recentIsos, findVars, handlerVars, serverVars, scanVars, clock>>

-----------------------------------------------------------------------------
(* ExecuteServer's request handler *)

MaxTokens == 4

\* const size_t CHUNK_SIZE = 16 * 1024
CHUNK_SIZE == 16 * 1024

\* what File::GetFileSize(filename) can answer (0 also for a file that is missing)
FileSizes == {0, 1, CHUNK_SIZE + 1, 2 * CHUNK_SIZE + 1}

\* A Range header is a string, held as its tokens: the text "bytes=", a run of
\* digits, or one other character.  No two runs of digits are adjacent.
NumTokens == {"0", "1", "16384", "32768"}
NumVal(t) == CASE t = "0" -> 0 [] t = "1" -> 1 [] t = "16384" -> 16384 [] t = "32768" -> 32768
RangeTokens == {"-", " ", "x"} \cup NumTokens

NoAdjacentDigits(h) ==
    \A k \in 1..(Len(h) - 1) : ~(h[k] \in NumTokens /\ h[k + 1] \in NumTokens)

RangeTails == {t \in UNION {[1..n -> RangeTokens] : n \in 0..MaxTokens} : NoAdjacentDigits(t)}

RangeHeaders == {<<"bytes=">> \o t : t \in RangeTails}
                \cup {<<>>, <<"x", "0", "-", "1">>, <<" ", "bytes=", "0", "-", "1">>}

\* the requests of a registered path: which method, and the Range header if any
Requests ==
    {[method |-> "GET", hasRange |-> TRUE, range |-> h] : h \in RangeHeaders}
    \cup {[method |-> m, hasRange |-> FALSE, range |-> <<>>] : m \in {"HEAD", "GET", "POST"}}
    \cup {[method |-> m, hasRange |-> TRUE, range |-> h] :
              m \in {"HEAD", "POST"},
              h \in {<<"bytes=", "0", "-", "1">>, <<"bytes=", "x">>, <<"bytes=", "1", "-", "0">>}}

\* %lld at token i of h: white space is skipped, a sign is optional, digits must follow
RECURSIVE SkipSpace(_, _)
SkipSpace(h, i) == IF i <= Len(h) /\ h[i] = " " THEN SkipSpace(h, i + 1) ELSE i

ScanInt(h, i) ==
    LET j == SkipSpace(h, i)
        neg == j <= Len(h) /\ h[j] = "-"
        k == IF neg THEN j + 1 ELSE j
    IN IF k <= Len(h) /\ h[k] \in NumTokens
         THEN [ok |-> TRUE, val |-> IF neg THEN 0 - NumVal(h[k]) ELSE NumVal(h[k]), next |-> k + 1]
         ELSE [ok |-> FALSE, val |-> 0, next |-> k]

\* sscanf(range.c_str(), "bytes=%lld-%lld", &begin, &last): the number of values
\* assigned, and the values (begin and last start as 0)
ScanRange(h) ==
    IF ~(Len(h) >= 1 /\ h[1] = "bytes=")
      THEN [n |-> 0, begin |-> 0, last |-> 0]
      ELSE LET a == ScanInt(h, 2) IN
           IF ~a.ok THEN [n |-> 0, begin |-> 0, last |-> 0]
           ELSE IF ~(a.next <= Len(h) /\ h[a.next] = "-")
             THEN [n |-> 1, begin |-> a.val, last |-> 0]
           ELSE LET b == ScanInt(h, a.next + 1) IN
                IF ~b.ok THEN [n |-> 1, begin |-> a.val, last |-> 0]
                ELSE [n |-> 2, begin |-> a.val, last |-> b.val]

\* a variant: a range may end one past the last byte
RangeOutsideOffByOne(begin, last, sz) == begin < 0 \/ begin > last \/ last > sz

\* if (begin < 0 || begin > last || last >= sz)
RangeOutside(begin, last, sz) == begin < 0 \/ begin > last \/ last >= sz

\* if (!fp || fseek(fp, begin, SEEK_SET) != 0)
FileAccessFailed(io) == ~io.openOk \/ ~io.seekOk

Min(a, b) == IF a < b THEN a ELSE b

\* what request.Out()->Push sends: a text, a span of the file read into buf, or
\* the bytes left in buf by an fread that failed
Text(t) == [kind |-> "text", text |-> t, from |-> 0, len |-> 0]
FileSpan(from, len) == [kind |-> "file", text |-> "", from |-> from, len |-> len]
BufferBytes(len) == [kind |-> "buffer", text |-> "", from |-> 0, len |-> len]

\* one fread(buf, chunklen, 1, fp) and the Push of buf: its result is not looked at
PushChunk(fpos, chunklen, readOk) ==
    IF readOk THEN FileSpan(fpos, chunklen) ELSE BufferBytes(chunklen)

\* for (s64 pos = 0; pos < len; pos += CHUNK_SIZE): the pushes made from pos on,
\* with the file position at fpos; n counts the freads
RECURSIVE StreamChunks(_, _, _, _, _)
StreamChunks(pos, len, fpos, n, io) ==
    IF ~(pos < len) THEN <<>>
    ELSE LET chunklen == Min(len - pos, CHUNK_SIZE)
             readOk == n \notin io.failedReads
             after == IF readOk \/ io.failAdvances THEN fpos + chunklen ELSE fpos
         IN <<PushChunk(fpos, chunklen, readOk)>>
              \o StreamChunks(pos + CHUNK_SIZE, len, after, n + 1, io)

\* request.WriteHttpResponseHeader(status, size, mimeType, otherHeaders) and the pushes
Response(status, size, mime, other, body) ==
    [status |-> status, contentLength |-> size, mimeType |-> mime,
     otherHeaders |-> other, body |-> body]

\* the handler lambda, for a request to a registered path whose file has size sz
Handler(req, sz, io) ==
    IF req.method = "HEAD"
      THEN Response(200, sz, "application/octet-stream", <<"Accept-Ranges", 0, 0, 0>>, <<>>)
    ELSE IF req.hasRange
      THEN LET r == ScanRange(req.range) IN
           IF r.n # 2
             THEN Response(400, -1, "text/plain", <<"", 0, 0, 0>>,
                           <<Text("Could not understand range request.")>>)
           ELSE IF RangeOutside(r.begin, r.last, sz)
             THEN Response(416, -1, "text/plain", <<"", 0, 0, 0>>,
                           <<Text("Range goes outside of file.")>>)
           ELSE IF FileAccessFailed(io)
             THEN Response(500, -1, "text/plain", <<"", 0, 0, 0>>,
                           <<Text("File access failed.")>>)
           ELSE LET len == r.last - r.begin + 1 IN
                Response(206, len, "application/octet-stream",
                         <<"Content-Range", r.begin, r.last, sz>>,
                         StreamChunks(0, len, r.begin, 1, io))
    ELSE Response(418, -1, "text/plain", <<"", 0, 0, 0>>,
                  <<Text("This server only supports range requests.")>>)

\* the outcomes of the file calls of one request: OpenCFile, fseek, and which of
\* the freads fail (and whether a failed fread still moves the file position)
MaxReads == 3
IoOutcomes ==
    {[openOk |-> o, seekOk |-> k, failedReads |-> f, failAdvances |-> a] :
        o \in BOOLEAN, k \in BOOLEAN, f \in SUBSET (1..MaxReads), a \in BOOLEAN}

\* the file calls the handler makes for this request, of those in io
IoUsed(req, sz, io) ==
    LET r == ScanRange(req.range)
        opens == req.method # "HEAD" /\ req.hasRange /\ r.n = 2
                   /\ ~RangeOutside(r.begin, r.last, sz)
        seeks == opens /\ io.openOk
        reads == seeks /\ io.seekOk
        nReads == IF reads THEN (r.last - r.begin + CHUNK_SIZE) \div CHUNK_SIZE ELSE 0
        failed == io.failedReads \cap (1..nReads)
    IN [openOk |-> ~opens \/ io.openOk, seekOk |-> ~seeks \/ io.seekOk,
        failedReads |-> failed, failAdvances |-> failed # {} /\ io.failAdvances]

NoIo == [openOk |-> TRUE, seekOk |-> TRUE, failedReads |-> {}, failAdvances |-> FALSE]
NoRequest == [method |-> "none", hasRange |-> FALSE, range |-> <<>>]
NoResponse == Response(0, -1, "", <<"", 0, 0, 0>>, <<>>)

\* the server answers the request: the handler runs to its end
ServeRequest ==
    /\ hResp = NoResponse
    /\ hReq # NoRequest
    /\ \E io \in IoOutcomes :
         /\ io = IoUsed(hReq, hSz, io)
         /\ hIo' = io
         /\ hResp' = Handler(hReq, hSz, io)
    /\ UNCHANGED <<hReq, hSz, serverVars, scanVars, findVars, pathVars, clock>>

-----------------------------------------------------------------------------
(* FindServer: the directory lookup and the probe of each entry *)

MaxEntries == 3

\* a directory entry: a JSON object with or without the fields "ip" and "p"
Entry(hasIp, ip, hasP, p) == [hasIp |-> hasIp, ip |-> ip, hasP |-> hasP, p |-> p]

PeerA == Entry(TRUE, "10.0.0.5", TRUE, 8080)
PeerB == Entry(TRUE, "10.0.0.6", TRUE, 8080)
DirEntries == {PeerA, PeerB, Entry(TRUE, "10.0.0.5", FALSE, 0),
               Entry(FALSE, "", TRUE, 8080)}

EntryLists == UNION {[1..n -> DirEntries] : n \in 0..MaxEntries}

\* entry->getString("ip", "") and entry->getInt("p", 0)
GetHost(e) == IF e.hasIp THEN e.ip ELSE ""
GetPort(e) == IF e.hasP THEN e.p ELSE 0

\* the <<host, port>> pairs FindServer can try to connect to
Targets == {<<GetHost(e), GetPort(e)>> : e \in DirEntries}

\* what the lookup of /match/list can answer: no resolve, a status code, and a
\* body that JsonReader rejects, that has no root, or that holds entries
DirAnswers ==
    {[resolve |-> FALSE, code |-> 200, jsonOk |-> TRUE, root |-> "entries", entries |-> l] :
              l \in {<<>>, <<PeerA>>}}
    \cup {[resolve |-> TRUE, code |-> c, jsonOk |-> TRUE, root |-> "entries", entries |-> l] :
              c \in {404, 500}, l \in {<<>>, <<PeerA>>}}
    \cup {[resolve |-> TRUE, code |-> 200, jsonOk |-> FALSE, root |-> "entries", entries |-> l] :
              l \in {<<>>, <<PeerA>>}}
    \cup {[resolve |-> TRUE, code |-> 200, jsonOk |-> TRUE, root |-> "null", entries |-> <<>>]}
    \cup {[resolve |-> TRUE, code |-> 200, jsonOk |-> TRUE, root |-> "entries", entries |-> l] :
              l \in EntryLists}

\* snprintf(url, sizeof(url), "http://%s:%d", host, port)
FormatUrl(host, port) == "http://" \o host \o ":" \o ToString(port)

\* a variant: the port is not looked at
ProbeAnyPort(host, port, reach) == \E t \in reach : t[1] = host

\* http.Resolve(host, port) && http.Connect()
Probe(host, port, reach) == <<host, port>> \in reach

\* the while (entry) loop from entry k on; probed is the log of the probes made
RECURSIVE ProbeLoop(_, _, _, _)
ProbeLoop(entries, k, reach, probed) ==
    IF k > Len(entries)
      THEN [url |-> "", probed |-> probed]
      ELSE LET host == GetHost(entries[k])
               port == GetPort(entries[k])
               log == Append(probed, <<host, port>>)
           IN IF Probe(host, port, reach)
                THEN [url |-> FormatUrl(host, port), probed |-> log]
                ELSE ProbeLoop(entries, k + 1, reach, log)

\* a variant: the status code is taken to be there also when nothing resolved
LookupCodeUnset(dir) == dir.code

\* the status code FindServer works with: 500 unless the lookup resolved
LookupCode(dir) == IF dir.resolve THEN dir.code ELSE 500

FindServer(dir, reach) ==
    IF LookupCode(dir) # 200 THEN [url |-> "", probed |-> <<>>]
    ELSE IF ~dir.jsonOk THEN [url |-> "", probed |-> <<>>]
    ELSE IF dir.root = "null" THEN [url |-> "", probed |-> <<>>]
    ELSE ProbeLoop(dir.entries, 1, reach, <<>>)

-----------------------------------------------------------------------------
(* RemoteISOConnectScreen and its scan thread *)

\* the directory answers and reachable peers a scan of the connect screen can meet
ScanWorlds == {[dir |-> [resolve |-> FALSE, code |-> 200, jsonOk |-> TRUE,
                         root |-> "entries", entries |-> <<>>],
                reach |-> {}],
               [dir |-> [resolve |-> TRUE, code |-> 200, jsonOk |-> TRUE,
                         root |-> "entries", entries |-> <<PeerA, PeerB>>],
                reach |-> {}],
               [dir |-> [resolve |-> TRUE, code |-> 200, jsonOk |-> TRUE,
                         root |-> "entries", entries |-> <<PeerA, PeerB>>],
                reach |-> {<<"10.0.0.6", 8080>>}]}

\* a fresh ExecuteScan thread, at its first statement; by tells what spawned it
NewScanRun(by) == [pc |-> "find", by |-> by]

\* RemoteISOScreen::HandleBrowse pushes a new RemoteISOConnectScreen: its constructor
HandleBrowse ==
    /\ connectScreen = "none"
    /\ connectScreen' = "alive"
    /\ scanComplete_' = FALSE
    /\ nextRetry_' = 0
    /\ scanLock_' = "free"
    /\ scanThread_' = "thread"
    /\ scanRuns' = Append(scanRuns, NewScanRun("constructor"))
    /\ emptySeenAt' = -1
    /\ UNCHANGED <<url_, browsed, scanFault, serverVars, callVars, clock>>

\* else if (nextRetry_ <= 0.0f)
RetryUnset == nextRetry_ <= 0

\* else if (nextRetry_ < real_time_now())
RetryDue == nextRetry_ < clock

\* a variant: update does not look at scanComplete_
IsCompleteUnchecked == TRUE

\* IsComplete(): scanComplete_ read under *scanLock_
IsComplete == scanComplete_

\* a variant: the retry is due at once
RetryTimeNow == clock

\* real_time_now() + 30.0
RetryTime == clock + RETRY_DELAY

\* RemoteISOConnectScreen::update; IsComplete() waits for *scanLock_
ConnectUpdate ==
    LET seen == IF emptySeenAt < 0 THEN clock ELSE emptySeenAt IN
    /\ connectScreen = "alive"
    /\ scanLock_ = "free"
    /\ IF ~IsComplete
         THEN UNCHANGED scanVars
       ELSE IF url_ # ""
         THEN \* BrowseToURL(url_): finishDialog(this, DR_OK)
              /\ browsed' = url_
              /\ connectScreen' = "closing"
              /\ UNCHANGED <<scanComplete_, url_, nextRetry_, scanThread_,
                             scanLock_, scanRuns, scanFault, emptySeenAt>>
       ELSE IF RetryUnset
         THEN /\ nextRetry_' = RetryTime
              /\ emptySeenAt' = seen
              /\ UNCHANGED <<connectScreen, scanComplete_, url_, scanThread_,
                             scanLock_, scanRuns, browsed, scanFault>>
       ELSE IF RetryDue
         THEN /\ scanComplete_' = FALSE
              /\ nextRetry_' = 0
              /\ scanThread_' = "thread"
              /\ scanRuns' = Append(scanRuns, NewScanRun("update"))
              /\ emptySeenAt' = -1
              /\ UNCHANGED <<connectScreen, url_, scanLock_, browsed, scanFault>>
       ELSE /\ emptySeenAt' = seen
            /\ UNCHANGED <<connectScreen, scanComplete_, url_, nextRetry_, scanThread_,
                           scanLock_, scanRuns, browsed, scanFault>>
    /\ UNCHANGED <<serverVars, callVars, clock>>

\* the Cancel choice: UIScreen::OnBack finishes the dialog
ConnectCancel ==
    /\ connectScreen = "alive"
    /\ connectScreen' = "closing"
    /\ UNCHANGED <<scanComplete_, url_, nextRetry_, scanThread_, scanLock_,
                   scanRuns, browsed, scanFault, emptySeenAt, serverVars, callVars, clock>>

\* a variant: the destructor waits for a scan that found a server
WaitOverWhenFound == scanComplete_ /\ url_ # ""

\* while (!scanComplete_) sleep_ms(1): the condition that ends the loop, read
\* without *scanLock_
WaitOver == scanComplete_

\* ~RemoteISOConnectScreen: the loop on scanComplete_ ends, then the deletes
ConnectDestroy ==
    /\ connectScreen = "closing"
    /\ WaitOver
    /\ connectScreen' = "destroyed"
    /\ scanThread_' = "null"
    /\ scanLock_' = "deleted"
    /\ UNCHANGED <<scanComplete_, url_, nextRetry_, scanRuns, browsed, scanFault,
                   emptySeenAt, serverVars, callVars, clock>>

SetScan(i, r) == scanRuns' = [scanRuns EXCEPT ![i] = r]

\* url_ = FindServer()
SC_FindServer(i) ==
    /\ scanRuns[i].pc = "find"
    /\ \E w \in ScanWorlds : url_' = FindServer(w.dir, w.reach).url
    /\ SetScan(i, [scanRuns[i] EXCEPT !.pc = "lock"])
    /\ UNCHANGED <<connectScreen, scanComplete_, nextRetry_, scanThread_,
                   scanLock_, browsed, scanFault, emptySeenAt, serverVars, callVars, clock>>

\* lock_guard guard(*scanLock_)
SC_Lock(i) ==
    /\ scanRuns[i].pc = "lock"
    /\ scanLock_ = "free"
    /\ scanLock_' = "held"
    /\ SetScan(i, [scanRuns[i] EXCEPT !.pc = "set"])
    /\ UNCHANGED <<connectScreen, scanComplete_, url_, nextRetry_, scanThread_,
                   browsed, scanFault, emptySeenAt, serverVars, callVars, clock>>

\* scanComplete_ = true
SC_SetComplete(i) ==
    /\ scanRuns[i].pc = "set"
    /\ scanComplete_' = TRUE
    /\ SetScan(i, [scanRuns[i] EXCEPT !.pc = "unlock"])
    /\ UNCHANGED <<connectScreen, url_, nextRetry_, scanThread_, scanLock_,
                   browsed, scanFault, emptySeenAt, serverVars, callVars, clock>>

\* the guard's destructor unlocks *scanLock_; the thread function returns
SC_Unlock(i) ==
    /\ scanRuns[i].pc = "unlock"
    /\ IF scanLock_ = "deleted"
         THEN scanFault' = TRUE /\ UNCHANGED scanLock_
         ELSE scanLock_' = "free" /\ UNCHANGED scanFault
    /\ scanRuns' = RemoveAt(scanRuns, i)
    /\ UNCHANGED <<connectScreen, scanComplete_, url_, nextRetry_, scanThread_,
                   browsed, emptySeenAt, serverVars, callVars, clock>>

ExecuteScan ==
    \/ \E i \in DOMAIN scanRuns : SC_FindServer(i)
    \/ \E i \in DOMAIN scanRuns : SC_Lock(i)
    \/ \E i \in DOMAIN scanRuns : SC_SetComplete(i)
    \/ \E i \in DOMAIN scanRuns : SC_Unlock(i)

-----------------------------------------------------------------------------
(* Time *)

\* real_time_now() advances by d seconds
Advance(d) ==
    /\ clock + d <= MaxTime
    /\ clock' = clock + d
    /\ UNCHANGED <<serverVars, scanVars, callVars>>

Tick == \E d \in CoarseTicks : Advance(d)

FineTick == \E d \in FineTicks : Advance(d)

RetryTick == \E d \in RetryTicks : clock + d <= MaxScanTime /\ Advance(d)

-----------------------------------------------------------------------------
(* The specifications *)

ServerInit ==
    /\ serverStatus = STOPPED
    /\ serverThread = "null"
    /\ serverRuns = <<>>
    /\ serverStopping_ = FALSE
    /\ serverRunning_ = FALSE
    /\ iRemoteISOPort \in ConfiguredPorts
    /\ httpServers = 0
    /\ lastAccess = NoAccess
    /\ lastCall = "none"
    /\ ret = "void"

ScanInit ==
    /\ connectScreen = "none"
    /\ scanComplete_ = FALSE
    /\ url_ = ""
    /\ nextRetry_ = 0
    /\ scanThread_ = "null"
    /\ scanLock_ = "deleted"
    /\ scanRuns = <<>>
    /\ browsed = ""
    /\ scanFault = FALSE
    /\ emptySeenAt = -1

HandlerIdle ==
    /\ hReq = NoRequest
    /\ hSz = 0
    /\ hIo = NoIo
    /\ hResp = NoResponse

PathsIdle ==
    /\ win32 = FALSE
    /\ recentIsos = <<>>
    /\ paths = NoPaths

FindIdle ==
    /\ fsDir = [resolve |-> FALSE, code |-> 200, jsonOk |-> TRUE,
                root |-> "entries", entries |-> <<>>]
    /\ fsReach = {}
    /\ fsResult = [state |-> "idle", url |-> "", probed |-> <<>>]

Init == ServerInit /\ ScanInit /\ FindIdle /\ HandlerIdle /\ PathsIdle /\ clock = 0

ServerNext == HandleStartServer \/ HandleStopServer \/ ScreenUpdate \/ ExecuteServer

ScanNext == HandleBrowse \/ ConnectUpdate \/ ConnectCancel \/ ConnectDestroy \/ ExecuteScan

Next == ServerNext \/ ScanNext \/ Tick

Spec == Init /\ [][Next]_vars


\* the server alone, with time advancing in small and large steps
TimedNext == ServerNext \/ FineTick

TimedSpec == Init /\ [][TimedNext]_vars

\* the server under a fair scheduler: a live server thread gets to take its next
\* step, which includes that RunSlice and RegisterServer return
LiveNext == ServerNext \/ Tick

LiveSpec == Init /\ [][LiveNext]_vars /\ WF_vars(ExecuteServer)

\* the server lifecycle alone, with any scheduler: the UI thread's handlers, the
\* server thread and time
ServerSpec == Init /\ [][LiveNext]_vars

\* the connect screen under a fair scheduler: a live scan thread gets to take
\* its next step, which includes that FindServer returns, and the destructor
\* keeps polling
ScanLiveNext == ScanNext \/ Tick

ScanLiveSpec ==
    Init /\ [][ScanLiveNext]_vars /\ WF_vars(ExecuteScan) /\ WF_vars(ConnectDestroy)

\* the connect screen alone, with time advancing in steps of half the retry delay
ScanTimedNext == ScanNext \/ RetryTick

ScanTimedSpec == Init /\ [][ScanTimedNext]_vars

\* one request to a registered path, answered by the handler
HandlerInit ==
    /\ ServerInit /\ ScanInit /\ FindIdle /\ PathsIdle /\ clock = 0
    /\ hReq \in Requests
    /\ hSz \in FileSizes
    /\ hIo = NoIo
    /\ hResp = NoResponse

HandlerSpec == HandlerInit /\ [][ServeRequest]_vars

\* one call of FindServer
FindInit ==
    /\ ServerInit /\ ScanInit /\ HandlerIdle /\ PathsIdle /\ clock = 0
    /\ fsDir \in DirAnswers
    /\ fsReach \in SUBSET Targets
    /\ fsResult = [state |-> "idle", url |-> "", probed |-> <<>>]

FS_Call ==
    /\ fsResult.state = "idle"
    /\ fsResult' = [state |-> "returned"] @@ FindServer(fsDir, fsReach)
    /\ UNCHANGED <<fsDir, fsReach, handlerVars, pathVars, serverVars, scanVars, clock>>

FindSpec == FindInit /\ [][FS_Call]_vars

\* one build of the map of served paths
PathsInit ==
    /\ ServerInit /\ ScanInit /\ FindIdle /\ HandlerIdle /\ clock = 0
    /\ win32 \in BOOLEAN
    /\ recentIsos \in IsoLists(MaxIsos)
    /\ paths = NoPaths

PathsSpec == PathsInit /\ [][PA_Build]_vars

-----------------------------------------------------------------------------
(* The claims *)

AllowedTransitions == {<<STOPPED, STARTING>>, <<STARTING, RUNNING>>,
                       <<RUNNING, STOPPING>>, <<STOPPING, STOPPED>>}

\* C1: whatever the interleaving of HandleStartServer, HandleStopServer and the
\* server thread, the server status only changes Stopped->Starting,
\* Starting->Running, Running->Stopping or Stopping->Stopped.
C1_StatusTransitions ==
    [][serverStatus' # serverStatus
         => <<serverStatus, serverStatus'>> \in AllowedTransitions]_vars

\* a whole cycle has run: a stop was accepted and the thread has set Stopped
C1_Witness == serverStatus = STOPPED /\ serverStopping_ /\ serverThread = "thread"

\* C2: HandleStartServer in a state other than Stopped, and HandleStopServer in a
\* state other than Running, returns "skipped" and leaves the server status, the
\* thread handle and the stopping flag unchanged, and spawns no thread.
C2_SkippedIsNoOp ==
    [][(\/ HandleStartServer /\ serverStatus # STOPPED
        \/ HandleStopServer /\ serverStatus # RUNNING)
         => /\ ret' = EVENT_SKIPPED
            /\ UNCHANGED <<serverStatus, serverThread, serverStopping_, serverRuns>>]_vars

\* a start request was skipped while the server was stopping
C2_Witness ==
    /\ lastCall = "HandleStartServer"
    /\ ret = EVENT_SKIPPED
    /\ serverStatus = STOPPING
    /\ Len(serverRuns) = 1

\* C3: under a fair scheduler, and with every RunSlice and RegisterServer call
\* returning, a start accepted in Stopped leads to Running and a stop accepted
\* in Running leads to Stopped.
C3_StartStopCompletes ==
    /\ (serverStatus = STARTING) ~> (serverStatus = RUNNING)
    /\ (serverStatus = STOPPING) ~> (serverStatus = STOPPED)

\* a stop was accepted and the run has ended
C3_Witness ==
    /\ serverStatus = STOPPED
    /\ serverStopping_
    /\ serverRuns = <<>>
    /\ lastCall = "HandleStopServer"

\* the scan threads that have not yet set scanComplete_
ActiveScans == {i \in DOMAIN scanRuns : scanRuns[i].pc \in {"find", "lock", "set"}}

\* C4: at most one ExecuteServer thread that has not yet set Stopped exists, and
\* at most one ExecuteScan thread that has not yet set scanComplete_ exists.
C4_OneRunEach == Len(serverRuns) <= 1 /\ Cardinality(ActiveScans) <= 1

\* a server run and a retry scan are both under way
C4_Witness ==
    /\ Len(serverRuns) = 1
    /\ \E i \in ActiveScans : scanRuns[i].by = "update"

\* A header is exactly bytes=<start>-<end>: "bytes=", a number, "-", a number,
\* each number a run of digits with or without a minus sign, and nothing else.
SignedNum(s) ==
    \/ Len(s) = 1 /\ s[1] \in NumTokens
    \/ Len(s) = 2 /\ s[1] = "-" /\ s[2] \in NumTokens
SignedVal(s) == IF Len(s) = 1 THEN NumVal(s[1]) ELSE 0 - NumVal(s[2])
ExactRangeAt(h, i) ==
    /\ h[1] = "bytes=" /\ h[i] = "-"
    /\ SignedNum(SubSeq(h, 2, i - 1)) /\ SignedNum(SubSeq(h, i + 1, Len(h)))
ExactRange(h) == \E i \in 3..(Len(h) - 1) : ExactRangeAt(h, i)
ExactSep(h) == CHOOSE i \in 3..(Len(h) - 1) : ExactRangeAt(h, i)
ExactStart(h) == SignedVal(SubSeq(h, 2, ExactSep(h) - 1))
ExactEnd(h) == SignedVal(SubSeq(h, ExactSep(h) + 1, Len(h)))

\* A header begins with bytes=<start>-<end>, where white space may stand before
\* each number and anything may follow <end>.
LooseNum(s) ==
    /\ Len(s) >= 1 /\ s[Len(s)] \in NumTokens
    /\ \A j \in 1..(Len(s) - 1) : s[j] = " " \/ (j = Len(s) - 1 /\ s[j] = "-")
LooseVal(s) ==
    IF Len(s) >= 2 /\ s[Len(s) - 1] = "-" THEN 0 - NumVal(s[Len(s)]) ELSE NumVal(s[Len(s)])
LooseRangeAt(h, i, k) ==
    /\ h[1] = "bytes=" /\ h[i] = "-"
    /\ LooseNum(SubSeq(h, 2, i - 1)) /\ LooseNum(SubSeq(h, i + 1, k))
LoosePlaces(h) == {p \in (3..Len(h)) \X (4..Len(h)) : p[1] < p[2] /\ LooseRangeAt(h, p[1], p[2])}
LooseRange(h) == LoosePlaces(h) # {}
LooseStart(h) == LET p == CHOOSE q \in LoosePlaces(h) : TRUE IN LooseVal(SubSeq(h, 2, p[1] - 1))
LooseEnd(h) == LET p == CHOOSE q \in LoosePlaces(h) : TRUE IN LooseVal(SubSeq(h, p[1] + 1, p[2]))

Answered == hResp # NoResponse
NoFileBytes(body) == \A k \in DOMAIN body : body[k].kind = "text"

RECURSIVE SumLen(_)
SumLen(body) == IF body = <<>> THEN 0 ELSE Head(body).len + SumLen(Tail(body))

\* the pushes are the file's bytes begin .. begin+len-1, in order, in chunks of
\* CHUNK_SIZE of which only the last may be shorter
IsFileSlice(body, begin, len) ==
    /\ SumLen(body) = len
    /\ \A k \in DOMAIN body :
         /\ body[k].kind = "file"
         /\ body[k].from = begin + (k - 1) * CHUNK_SIZE
         /\ body[k].len <= CHUNK_SIZE
         /\ k < Len(body) => body[k].len = CHUNK_SIZE

\* C6 as stated, for a file that can be opened and positioned: a GET with
\* Range: bytes=<start>-<end>, 0 <= start <= end < fileSize, is answered 206
\* with Content-Length end-start+1, and the pushes are exactly the file's bytes
\* start..end, in order, in chunks of at most 16 KiB, only the last one shorter.
C6_AsStated ==
    /\ Answered /\ hReq.method = "GET" /\ hReq.hasRange /\ ExactRange(hReq.range)
    /\ 0 <= ExactStart(hReq.range) /\ ExactStart(hReq.range) <= ExactEnd(hReq.range)
    /\ ExactEnd(hReq.range) < hSz
    /\ hIo.openOk /\ hIo.seekOk
    => LET len == ExactEnd(hReq.range) - ExactStart(hReq.range) + 1 IN
       /\ hResp.status = 206
       /\ hResp.contentLength = len
       /\ IsFileSlice(hResp.body, ExactStart(hReq.range), len)

\* C7 as stated: a failing open, seek or read is answered 500 and the transfer
\* is aborted; no response carries bytes that were not read from the file.
C7_AsStated ==
    Answered /\ (~hIo.openOk \/ ~hIo.seekOk \/ hIo.failedReads # {})
    => /\ hResp.status = 500
       /\ \A k \in DOMAIN hResp.body : hResp.body[k].kind # "buffer"

\* the <<host, port>> FindServer connects to for entry k of the directory's list
Target(k) == <<GetHost(fsDir.entries[k]), GetPort(fsDir.entries[k])>>

\* the entries that accept a connection
ReachableEntries == {k \in DOMAIN fsDir.entries : Target(k) \in fsReach}

FirstReachable == CHOOSE k \in ReachableEntries : \A j \in ReachableEntries : k <= j

Returned == fsResult.state = "returned"
LookupWorked == fsDir.resolve /\ fsDir.code = 200 /\ fsDir.jsonOk /\ fsDir.root = "entries"

\* C8: FindServer probes the entries in the order of the list, returns the URL
\* http://<ip>:<port> of the first entry that accepts a connection and probes
\* none after it, and returns "" exactly when no entry of the list does (the
\* list being empty, or every entry probed in vain).
C8_FirstReachable ==
    Returned /\ LookupWorked =>
        LET n == IF ReachableEntries = {} THEN Len(fsDir.entries) ELSE FirstReachable IN
        /\ fsResult.probed = [k \in 1..n |-> Target(k)]
        /\ (fsResult.url = "") = (ReachableEntries = {})
        /\ ReachableEntries # {} =>
             fsResult.url = "http://" \o fsDir.entries[n].ip \o ":" \o ToString(fsDir.entries[n].p)

\* the second of three entries is the first that answers: two probes, its URL
C8_Witness ==
    /\ Returned /\ LookupWorked
    /\ Len(fsDir.entries) = 3
    /\ ReachableEntries = {2, 3}
    /\ Len(fsResult.probed) = 2
    /\ fsResult.url = "http://10.0.0.6:8080"

\* C9: when the directory host does not resolve, answers another status than
\* 200, or sends a body that is not JSON, FindServer returns "" and probes nothing.
C9_LookupFailure ==
    Returned /\ (~fsDir.resolve \/ fsDir.code # 200 \/ ~fsDir.jsonOk)
    => fsResult.url = "" /\ fsResult.probed = <<>>

\* the host did not resolve, although a peer that would have answered exists
C9_Witness ==
    /\ Returned /\ ~fsDir.resolve
    /\ fsDir.entries = <<PeerA>> /\ <<"10.0.0.5", 8080>> \in fsReach
    /\ fsResult.url = ""

\* C10: within one server run at most one RegisterServer call is in flight, and
\* two consecutive calls of the run begin at least 540 seconds apart.
C10_RegisterSpacing ==
    \A i \in DOMAIN serverRuns :
        LET r == serverRuns[i] IN
        /\ Len(r.begins) - r.returned \in {0, 1}
        /\ \A k \in 1..(Len(r.begins) - 1) :
             r.begins[k + 1] - r.begins[k] >= REGISTER_INTERVAL

\* a run has registered three times, the first call having taken time
C10_Witness ==
    \E i \in DOMAIN serverRuns :
        /\ Len(serverRuns[i].begins) = 3
        /\ serverRuns[i].begins[2] - serverRuns[i].begins[1] > REGISTER_INTERVAL + 1

\* C11: a stop request leaves the server thread where it is, a RunSlice call
\* under way ends only by returning, the loop condition that follows the stop
\* request leaves the loop, at most one RunSlice call begins while the status
\* is Stopping and none after a loop condition was false, and the thread then
\* sets Stopped.
C11_CooperativeStop ==
    /\ [](\A i \in DOMAIN serverRuns :
             /\ serverRuns[i].lateSlices <= 1
             /\ serverRuns[i].sawStop => serverRuns[i].pc \in {"shutdown", "setStopped"})
    /\ [][serverStatus = RUNNING /\ serverStatus' = STOPPING
            => serverRuns' = serverRuns]_vars
    /\ [][\A i \in DOMAIN serverRuns :
            /\ serverRuns[i].pc = "slice"
                 => /\ i \in DOMAIN serverRuns'
                    /\ serverRuns'[i].pc \in {"slice", "register", "check"}
            /\ serverRuns[i].pc = "check" /\ serverStatus = STOPPING
                 => /\ i \in DOMAIN serverRuns'
                    /\ serverRuns'[i].pc \in {"check", "shutdown"}]_vars
    /\ (serverStatus = STOPPING) ~> (serverStatus = STOPPED /\ serverRuns = <<>>)

\* a RunSlice call began after the stop request, and the loop condition that
\* followed its return left the loop
C11_Witness ==
    \E i \in DOMAIN serverRuns :
        /\ serverRuns[i].lateSlices = 1
        /\ serverRuns[i].sawStop
        /\ serverStatus = STOPPING

\* C12: a server thread whose Listen(g_Config.iRemoteISOPort) and Listen(0)
\* both failed never sees the status Running while it lives.
C12_AsStated ==
    \A i \in DOMAIN serverRuns :
        serverRuns[i].pc # "listen" /\ serverRuns[i].bound = "none"
            => serverStatus # RUNNING

\* C13: while the status is Stopped and no server thread is left, no
\* http::Server object (with its listening socket) made by a run is still alive.
C13_AsStated == serverStatus = STOPPED /\ serverRuns = <<>> => httpServers = 0

\* C14: every step that reads or writes serverStatus or g_Config.iRemoteISOPort
\* does so with serverStatusLock held.
C14_AsStated == lastAccess.touched # {} => lastAccess.held

\* C15: every step that changes serverStatus, to whichever of the four values,
\* notifies serverStatusCond.
C15_AsStated == [][serverStatus' # serverStatus => lastAccess'.notified]_vars

\* C16: serverThread is deleted and set to null only by a step taken while the
\* status is Stopped and the flag of an accepted stop request is set, hence
\* never while the status is Starting, Running or Stopping.
C16_ReclaimOnlyWhenStopped ==
    [][serverThread = "thread" /\ serverThread' = "null"
         => /\ serverStatus = STOPPED /\ serverStatus' = STOPPED
            /\ serverStopping_
            /\ serverRuns = <<>>]_vars

\* update has reclaimed the handle of a run that ended, and no other exists
C16_Witness ==
    /\ lastCall = "update"
    /\ serverThread = "null"
    /\ httpServers = 1
    /\ ~serverStopping_
    /\ serverStatus = STOPPED

\* C17: with FindServer returning and a fair scheduler, a connect screen that
\* is being closed is destroyed: the destructor's wait for scanComplete_ ends,
\* whatever scans, retries and updates came before.
C17_TeardownEnds == (connectScreen = "closing") ~> (connectScreen = "destroyed")

\* the screen was destroyed after update had spawned a retry scan, which found
\* nothing
C17_Witness ==
    /\ connectScreen = "destroyed"
    /\ url_ = ""
    /\ \E i \in DOMAIN scanRuns : scanRuns[i].by = "update"

\* the separators of the build, the place where the last path component of f
\* begins, and the key of f: a slash and that component, with each space
\* written %20
Separators == IF win32 THEN {"/", "\\"} ELSE {"/"}
LastComponent(f) ==
    LET k == CHOOSE k \in 0..Len(f) :
                 /\ k = 0 \/ f[k] \in Separators
                 /\ \A j \in (k + 1)..Len(f) : f[j] \notin Separators
    IN SubSeq(f, k + 1, Len(f))
UrlPath(f) == ReplaceAll(<<"/">> \o LastComponent(f), " ", <<"%", "2", "0">>)

\* the extension of f: its last component from the last dot on, in lower case
Extension(f) ==
    LET c == LastComponent(f)
        dots == {i \in DOMAIN c : c[i] = "."}
    IN IF dots = {} THEN <<>>
       ELSE LET d == CHOOSE i \in dots : \A j \in dots : j <= i
            IN [i \in 1..(Len(c) - d + 1) |-> ToLower(c[d + i - 1])]
Images(l) ==
    {i \in DOMAIN l : Extension(l[i]) \in {<<".", "i", "s", "o">>, <<".", "c", "s", "o">>}}

\* C18: the keys of the map built from a list are exactly the keys of the
\* entries whose extension is .iso or .cso in any case, and each key maps to
\* the last entry of the list that has it.
C18_ServedMapping ==
    paths.built =>
        /\ DOMAIN paths.map = {UrlPath(recentIsos[i]) : i \in Images(recentIsos)}
        /\ \A i \in Images(recentIsos) :
              LET same == {j \in Images(recentIsos) :
                             UrlPath(recentIsos[j]) = UrlPath(recentIsos[i])}
              IN (\A j \in same : j <= i) => paths.map[UrlPath(recentIsos[i])] = recentIsos[i]

\* a list where two images share a key, one image has its own and one entry is
\* no image: the map has two keys
C18_Witness ==
    /\ paths.built
    /\ Len(recentIsos) = 3
    /\ Cardinality(Images(recentIsos)) = 3
    /\ Cardinality(DOMAIN paths.map) = 2
    /\ \E i \in DOMAIN recentIsos : \E j \in DOMAIN recentIsos \ {i} :
          UrlPath(recentIsos[i]) = UrlPath(recentIsos[j]) /\ recentIsos[i] # recentIsos[j]

\* C19: update spawns a scan only when the last scan has set scanComplete_ and
\* left url_ empty, no other scan is under way, and update saw that empty
\* completion at least RETRY_DELAY seconds ago; the step that spawns it clears
\* scanComplete_ and nextRetry_, and the new thread has not yet called FindServer.
C19_RetryOnlyWhenDue ==
    [][connectScreen = "alive" /\ Len(scanRuns') > Len(scanRuns)
         => /\ scanComplete_ /\ url_ = "" /\ ActiveScans = {}
            /\ emptySeenAt >= 0 /\ clock >= emptySeenAt + RETRY_DELAY
            /\ ~scanComplete_' /\ nextRetry_' = 0
            /\ scanRuns'[Len(scanRuns')] = NewScanRun("update")]_vars

\* a retry scan is under way, spawned at the first moment it could be: the
\* empty completion was seen at time 0
C19_Witness ==
    /\ clock = RETRY_DELAY + 1
    /\ ~scanComplete_ /\ nextRetry_ = 0
    /\ \E i \in DOMAIN scanRuns : scanRuns[i] = NewScanRun("update")

\* C20: no scan thread uses *scanLock_ after the destructor of the connect
\* screen has deleted it.
C20_AsStated == ~scanFault
====
